---- MODULE Spec2Model ----
(***************************************************************************)
(* Model of the items API of turbo-nestjs-remix-starter: the in-memory     *)
(* ItemsService (apps/api/src/v1/items/items.service.ts), the list and     *)
(* delete handlers of ItemsController and the HttpExceptionFilter.         *)
(*                                                                         *)
(* JavaScript strings are TLA+ strings; they are compared as JavaScript    *)
(* compares them, by UTF-16 code unit (charCodeAt).  A Date is its time    *)
(* value in milliseconds, counted from 2024-01-01T00:00:00.000Z so that    *)
(* it fits TLC's integers.  An optional string (name?: string) is <<>>     *)
(* when undefined and <<s>> when it is the string s.                       *)
(***************************************************************************)
EXTENDS Integers, Sequences, FiniteSets, TLC

VARIABLES items, nextId, now, res, everIds, calls,
          boundary, timers, delays, optimistic, client

\* the API server and the call in progress
apiVars == <<items, nextId, now, res, everIds, calls>>
\* the ErrorBoundary of the web application, the pending timeouts of its
\* window and the delays it has asked for
boundaryVars == <<boundary, timers, delays>>
\* the web application: the ErrorBoundary, the useOptimisticAction hook of a
\* component with its actions in flight, and the deletions that
\* OptimisticItemsList has asked the server for
uiVars == <<boundary, timers, delays, optimistic, client>>

vars == <<items, nextId, now, res, everIds, calls, boundary, timers, delays,
          optimistic, client>>

---------------------------------------------------------------------------
(* Bounds of the model *)

\* number of state-changing service calls in one run
MaxCalls == 2
\* number of records created in one run
MaxCreates == 1
\* number of milliseconds the clock advances in one run
MaxTicks == 1
\* number of records a run of creates adds to the seed records
MaxGrowth == 7
\* number of timeouts the error boundary asks for in one run
MaxTimeouts == 2
\* number of resets of the error boundary in one run
MaxResets == 4
\* number of calls of executeOptimistic in one run
MaxOptimistic == 3
\* number of clicks on Delete in one run
MaxDeletes == 2

---------------------------------------------------------------------------
(* JavaScript values *)

Undefined == <<>>
Some(s) == <<s>>
IsDefined(o) == o # Undefined
Val(o) == o[1]

\* truthiness of an optional string: undefined and '' are falsy
Truthy(o) == IsDefined(o) /\ Val(o) # ""

Min2(a, b) == IF a < b THEN a ELSE b
Max2(a, b) == IF a > b THEN a ELSE b

IndexOf(str, c) ==
  IF \E k \in 1..Len(str) : SubSeq(str, k, k) = c
  THEN CHOOSE k \in 1..Len(str) : SubSeq(str, k, k) = c
  ELSE 0

\* UTF-16 code unit of the i-th character (1-based) of s; the model's
\* strings are made of letters, digits and spaces
charCodeAt(s, i) ==
  LET c == SubSeq(s, i, i) IN
  IF c = " " THEN 32
  ELSE IF IndexOf("0123456789", c) > 0 THEN 47 + IndexOf("0123456789", c)
  ELSE IF IndexOf("ABCDEFGHIJKLMNOPQRSTUVWXYZ", c) > 0
       THEN 64 + IndexOf("ABCDEFGHIJKLMNOPQRSTUVWXYZ", c)
  ELSE 96 + IndexOf("abcdefghijklmnopqrstuvwxyz", c)

RECURSIVE StrLessFrom(_, _, _)
StrLessFrom(a, b, i) ==
  IF i > Len(a) THEN i <= Len(b)
  ELSE IF i > Len(b) THEN FALSE
  ELSE IF SubSeq(a, i, i) = SubSeq(b, i, i) THEN StrLessFrom(a, b, i + 1)
  ELSE charCodeAt(a, i) < charCodeAt(b, i)

\* a < b on two JavaScript strings
StrLess(a, b) == StrLessFrom(a, b, 1)

Digit(d) == SubSeq("0123456789", d + 1, d + 1)

\* String(n) for a non-negative integer n
RECURSIVE String(_)
String(n) == IF n < 10 THEN Digit(n) ELSE String(n \div 10) \o Digit(n % 10)

Pad2(n) == Digit((n \div 10) % 10) \o Digit(n % 10)
Pad3(n) == Digit((n \div 100) % 10) \o Pad2(n)

MsPerSecond == 1000
MsPerMinute == 60000
MsPerHour == 3600000
MsPerDay == 86400000

\* time value of 2024-01-<day>T<h>:<m>:<s>.<ms>Z
DateUTC(day, h, m, s, ms) ==
  (day - 1) * MsPerDay + h * MsPerHour + m * MsPerMinute + s * MsPerSecond + ms

\* Date.prototype.toISOString, for a time value in January 2024
toISOString(t) ==
  "2024-01-" \o Pad2(1 + t \div MsPerDay)
    \o "T" \o Pad2((t % MsPerDay) \div MsPerHour)
    \o ":" \o Pad2((t % MsPerHour) \div MsPerMinute)
    \o ":" \o Pad2((t % MsPerMinute) \div MsPerSecond)
    \o "." \o Pad3(t % MsPerSecond) \o "Z"

---------------------------------------------------------------------------
(* ItemsService *)

SeedItems ==
  << [id |-> "1", name |-> "Sample Item 1",
      description |-> "This is a sample item for demonstration",
      createdAt |-> DateUTC(15, 10, 30, 0, 0), updatedAt |-> DateUTC(15, 10, 30, 0, 0)],
     [id |-> "2", name |-> "Sample Item 2",
      description |-> "Another sample item for testing",
      createdAt |-> DateUTC(16, 14, 20, 0, 0), updatedAt |-> DateUTC(16, 14, 20, 0, 0)],
     [id |-> "3", name |-> "Sample Item 3",
      description |-> "Third sample item in our collection",
      createdAt |-> DateUTC(17, 9, 15, 0, 0), updatedAt |-> DateUTC(17, 9, 15, 0, 0)] >>

SeedNextId == 4

\* the clock when the service is constructed: 2024-01-18T00:00:00.000Z
StartTime == DateUTC(18, 0, 0, 0, 0)

toDto(item) ==
  [id |-> item.id,
   type |-> "item",
   attributes |-> [name |-> item.name,
                   description |-> item.description,
                   createdAt |-> toISOString(item.createdAt),
                   updatedAt |-> toISOString(item.updatedAt)]]

\* new NotFoundException(message): getStatus() and getResponse(); the
\* message of a response is [type |-> "string", value |-> s], an array
\* [type |-> "array", value |-> <<s1, ...>>] or [type |-> "undefined"]
NotFoundException(message) ==
  [status |-> 404,
   response |-> [message |-> [type |-> "string", value |-> message],
                 error |-> "Not Found", statusCode |-> 404]]

NotFoundMessage(id) == "Item with id " \o id \o " not found"

\* findIndex answering the last index for an id that is absent
findIndex_lastWhenAbsent(its, id) ==
  IF \E i \in 1..Len(its) : its[i].id = id
  THEN (CHOOSE i \in 1..Len(its) :
          its[i].id = id /\ \A j \in 1..(i - 1) : its[j].id # id) - 1
  ELSE Len(its) - 1

\* Array.prototype.findIndex((item) => item.id === id): 0-based, -1 when absent
findIndex(its, id) ==
  IF \E i \in 1..Len(its) : its[i].id = id
  THEN (CHOOSE i \in 1..Len(its) :
          its[i].id = id /\ \A j \in 1..(i - 1) : its[j].id # id) - 1
  ELSE -1

StringFields == {"id", "name", "description"}
DateFields == {"createdAt", "updatedAt"}

\* the comparison falling back to the id for a field the record does not have
LessThan_fallbackToId(a, b, field) ==
  IF field \in StringFields THEN StrLess(a[field], b[field])
  ELSE IF field \in DateFields THEN a[field] < b[field]
  ELSE StrLess(a.id, b.id)

\* aValue < bValue for aValue = a[field], bValue = b[field]; a field the
\* record does not have reads undefined, and undefined < undefined is false
LessThan(a, b, field) ==
  IF field \in StringFields THEN StrLess(a[field], b[field])
  ELSE IF field \in DateFields THEN a[field] < b[field]
  ELSE FALSE

\* the comparator handed to sort
compare(a, b, query) ==
  IF LessThan(a, b, query.sort) THEN (IF query.order = "asc" THEN -1 ELSE 1)
  ELSE IF LessThan(b, a, query.sort) THEN (IF query.order = "asc" THEN 1 ELSE -1)
  ELSE 0

\* x goes before every element that is not smaller: equal elements change
\* places
RECURSIVE InsertPos_beforeEqual(_, _, _, _)
InsertPos_beforeEqual(sorted, x, query, i) ==
  IF i = 0 THEN 1
  ELSE IF compare(sorted[i], x, query) >= 0
       THEN InsertPos_beforeEqual(sorted, x, query, i - 1)
  ELSE i + 1

\* the place of x among the first i elements of sorted: x goes after the
\* last element that does not compare greater than it, and so after every
\* element that compares equal: the sort is stable (ECMAScript 2019)
RECURSIVE InsertPos(_, _, _, _)
InsertPos(sorted, x, query, i) ==
  IF i = 0 THEN 1
  ELSE IF compare(sorted[i], x, query) > 0 THEN InsertPos(sorted, x, query, i - 1)
  ELSE i + 1

Insert(sorted, x, query) ==
  LET p == InsertPos(sorted, x, query, Len(sorted)) IN
  SubSeq(sorted, 1, p - 1) \o <<x>> \o SubSeq(sorted, p, Len(sorted))

\* Array.prototype.sort with the comparator
RECURSIVE sort(_, _)
sort(arr, query) ==
  IF arr = <<>> THEN <<>>
  ELSE Insert(sort(SubSeq(arr, 1, Len(arr) - 1), query), arr[Len(arr)], query)

\* slice taking the element at end as well
slice_inclusiveEnd(arr, start, end) ==
  LET len == Len(arr)
      k == IF start < 0 THEN Max2(len + start, 0) ELSE Min2(start, len)
      final == IF end < 0 THEN Max2(len + end, 0) ELSE Min2(end + 1, len)
  IN SubSeq(arr, k + 1, final)

\* Array.prototype.slice(start, end) with 0-based start and end
slice(arr, start, end) ==
  LET len == Len(arr)
      k == IF start < 0 THEN Max2(len + start, 0) ELSE Min2(start, len)
      final == IF end < 0 THEN Max2(len + end, 0) ELSE Min2(end, len)
  IN SubSeq(arr, k + 1, final)

\* n || d on numbers: 0 is falsy
OrNum(n, d) == IF n = 0 THEN d ELSE n
\* s || d on strings: '' is falsy
OrStr(s, d) == IF s = "" THEN d ELSE s

DefaultPage == 1
DefaultLimit == 20

\* findAll answering a page past the end with the last records
findAll_clampsPage(its, query) ==
  LET filteredItems == IF query.sort # "" THEN sort(its, query) ELSE its
      total == Len(filteredItems)
      page == OrNum(query.page, DefaultPage)
      limit == OrNum(query.limit, DefaultLimit)
      startIndex == Min2((page - 1) * limit, Max2(total - limit, 0))
      endIndex == startIndex + limit
      paginatedItems == slice(filteredItems, startIndex, endIndex)
  IN [items |-> [i \in 1..Len(paginatedItems) |-> toDto(paginatedItems[i])],
      total |-> total]

\* findAll cutting the page out of the store and sorting the page
findAll_sortsThePage(its, query) ==
  LET total == Len(its)
      page == OrNum(query.page, DefaultPage)
      limit == OrNum(query.limit, DefaultLimit)
      startIndex == (page - 1) * limit
      endIndex == startIndex + limit
      paginatedItems == slice(its, startIndex, endIndex)
      filteredItems == IF query.sort # "" THEN sort(paginatedItems, query)
                       ELSE paginatedItems
  IN [items |-> [i \in 1..Len(filteredItems) |-> toDto(filteredItems[i])],
      total |-> total]

findAll(its, query) ==
  LET filteredItems == IF query.sort # "" THEN sort(its, query) ELSE its
      total == Len(filteredItems)
      page == OrNum(query.page, DefaultPage)
      limit == OrNum(query.limit, DefaultLimit)
      startIndex == (page - 1) * limit
      endIndex == startIndex + limit
      paginatedItems == slice(filteredItems, startIndex, endIndex)
  IN [items |-> [i \in 1..Len(paginatedItems) |-> toDto(paginatedItems[i])],
      total |-> total]

\* findAll sorting this.items itself
findAllItems_sortedInPlace(its, query) ==
  IF query.sort # "" THEN sort(its, query) ELSE its

\* this.items after findAll: filteredItems is a copy of the array
\* ([...this.items]), and sort and slice work on the copy
findAllItems(its, query) == its

\* findOne returning the first record of the store
findOne_first(its, id) ==
  IF \E i \in 1..Len(its) : its[i].id = id
  THEN [ok |-> TRUE, ret |-> toDto(its[1])]
  ELSE [ok |-> FALSE, exception |-> NotFoundException(NotFoundMessage(id))]

findOne(its, id) ==
  IF \E i \in 1..Len(its) : its[i].id = id
  THEN [ok |-> TRUE, ret |-> toDto(its[findIndex(its, id) + 1])]
  ELSE [ok |-> FALSE, exception |-> NotFoundException(NotFoundMessage(id))]

\* create deriving the id from the number of records instead of nextId
create_idFromLength(its, nid, createItemData, t1, t2) ==
  LET newItem == [id |-> String(Len(its) + 1),
                  name |-> createItemData.name,
                  description |-> IF Truthy(createItemData.description)
                                  THEN Val(createItemData.description) ELSE "",
                  createdAt |-> t1,
                  updatedAt |-> t2]
  IN [items |-> Append(its, newItem), nextId |-> nid + 1, ok |-> TRUE,
      ret |-> toDto(newItem)]

\* create(createItemData); t1 and t2 are the two readings of new Date()
create(its, nid, createItemData, t1, t2) ==
  LET newItem == [id |-> String(nid),
                  name |-> createItemData.name,
                  description |-> IF Truthy(createItemData.description)
                                  THEN Val(createItemData.description) ELSE "",
                  createdAt |-> t1,
                  updatedAt |-> t2]
  IN [items |-> Append(its, newItem), nextId |-> nid + 1, ok |-> TRUE,
      ret |-> toDto(newItem)]

\* createSimple taking the id after the number of records
createSimple_idFromLength(its, nid, name, description, t1, t2) ==
  LET newItem == [id |-> String(Len(its) + 1),
                  name |-> name,
                  description |-> description,
                  createdAt |-> t1,
                  updatedAt |-> t2]
  IN [items |-> Append(its, newItem), nextId |-> nid + 1, ok |-> TRUE,
      ret |-> toDto(newItem)]

\* createSimple(name, description); t1 and t2 are the two readings of
\* new Date()
createSimple(its, nid, name, description, t1, t2) ==
  LET newItem == [id |-> String(nid),
                  name |-> name,
                  description |-> description,
                  createdAt |-> t1,
                  updatedAt |-> t2]
  IN [items |-> Append(its, newItem), nextId |-> nid + 1, ok |-> TRUE,
      ret |-> toDto(newItem)]

\* update writing an omitted description as ''
update_clearsOmitted(its, nid, id, updateItemData, t) ==
  LET itemIndex == findIndex(its, id) IN
  IF itemIndex = -1
  THEN [items |-> its, nextId |-> nid, ok |-> FALSE,
        exception |-> NotFoundException(NotFoundMessage(id))]
  ELSE LET item == its[itemIndex + 1]
           updatedItem ==
             [id |-> item.id,
              name |-> IF Truthy(updateItemData.name)
                       THEN Val(updateItemData.name) ELSE item.name,
              description |-> IF IsDefined(updateItemData.description)
                              THEN Val(updateItemData.description)
                              ELSE "",
              createdAt |-> item.createdAt,
              updatedAt |-> t]
       IN [items |-> [its EXCEPT ![itemIndex + 1] = updatedItem], nextId |-> nid,
           ok |-> TRUE, ret |-> toDto(updatedItem)]

\* update(id, updateItemData); t is the reading of new Date()
update(its, nid, id, updateItemData, t) ==
  LET itemIndex == findIndex(its, id) IN
  IF itemIndex = -1
  THEN [items |-> its, nextId |-> nid, ok |-> FALSE,
        exception |-> NotFoundException(NotFoundMessage(id))]
  ELSE LET item == its[itemIndex + 1]
           updatedItem ==
             [id |-> item.id,
              name |-> IF Truthy(updateItemData.name)
                       THEN Val(updateItemData.name) ELSE item.name,
              description |-> IF IsDefined(updateItemData.description)
                              THEN Val(updateItemData.description)
                              ELSE item.description,
              createdAt |-> item.createdAt,
              updatedAt |-> t]
       IN [items |-> [its EXCEPT ![itemIndex + 1] = updatedItem], nextId |-> nid,
           ok |-> TRUE, ret |-> toDto(updatedItem)]

\* updateSimple writing an omitted description as ''
updateSimple_clearsOmitted(its, nid, id, name, description, t) ==
  LET itemIndex == findIndex(its, id) IN
  IF itemIndex = -1
  THEN [items |-> its, nextId |-> nid, ok |-> FALSE,
        exception |-> NotFoundException(NotFoundMessage(id))]
  ELSE LET item == its[itemIndex + 1]
           updatedItem ==
             [id |-> item.id,
              name |-> IF IsDefined(name) THEN Val(name) ELSE item.name,
              description |-> IF IsDefined(description) THEN Val(description)
                              ELSE "",
              createdAt |-> item.createdAt,
              updatedAt |-> t]
       IN [items |-> [its EXCEPT ![itemIndex + 1] = updatedItem], nextId |-> nid,
           ok |-> TRUE, ret |-> toDto(updatedItem)]

\* updateSimple leaving updatedAt as it was
updateSimple_keepsUpdatedAt(its, nid, id, name, description, t) ==
  LET itemIndex == findIndex(its, id) IN
  IF itemIndex = -1
  THEN [items |-> its, nextId |-> nid, ok |-> FALSE,
        exception |-> NotFoundException(NotFoundMessage(id))]
  ELSE LET item == its[itemIndex + 1]
           updatedItem ==
             [id |-> item.id,
              name |-> IF IsDefined(name) THEN Val(name) ELSE item.name,
              description |-> IF IsDefined(description) THEN Val(description)
                              ELSE item.description,
              createdAt |-> item.createdAt,
              updatedAt |-> item.updatedAt]
       IN [items |-> [its EXCEPT ![itemIndex + 1] = updatedItem], nextId |-> nid,
           ok |-> TRUE, ret |-> toDto(updatedItem)]

updateSimple(its, nid, id, name, description, t) ==
  LET itemIndex == findIndex(its, id) IN
  IF itemIndex = -1
  THEN [items |-> its, nextId |-> nid, ok |-> FALSE,
        exception |-> NotFoundException(NotFoundMessage(id))]
  ELSE LET item == its[itemIndex + 1]
           updatedItem ==
             [id |-> item.id,
              name |-> IF IsDefined(name) THEN Val(name) ELSE item.name,
              description |-> IF IsDefined(description) THEN Val(description)
                              ELSE item.description,
              createdAt |-> item.createdAt,
              updatedAt |-> t]
       IN [items |-> [its EXCEPT ![itemIndex + 1] = updatedItem], nextId |-> nid,
           ok |-> TRUE, ret |-> toDto(updatedItem)]

\* Array.prototype.splice(index, 1) on a 0-based index
splice1(arr, index) == SubSeq(arr, 1, index) \o SubSeq(arr, index + 2, Len(arr))

\* remove returning normally when the id is absent
remove_silent(its, nid, id) ==
  LET itemIndex == findIndex(its, id) IN
  IF itemIndex = -1
  THEN [items |-> its, nextId |-> nid, ok |-> TRUE]
  ELSE [items |-> splice1(its, itemIndex), nextId |-> nid, ok |-> TRUE]

remove(its, nid, id) ==
  LET itemIndex == findIndex(its, id) IN
  IF itemIndex = -1
  THEN [items |-> its, nextId |-> nid, ok |-> FALSE,
        exception |-> NotFoundException(NotFoundMessage(id))]
  ELSE [items |-> splice1(its, itemIndex), nextId |-> nid, ok |-> TRUE]

---------------------------------------------------------------------------
(* HttpExceptionFilter *)

BAD_REQUEST == 400
UNAUTHORIZED == 401
FORBIDDEN == 403
NOT_FOUND == 404
CONFLICT == 409
TOO_MANY_REQUESTS == 429
NO_CONTENT == 204
UNPROCESSABLE_ENTITY == 422

\* responseObj.message is a string, an array of strings or undefined; a
\* string message is truthy unless it is ''
MessageTruthy(message) ==
  \/ message.type = "array"
  \/ message.type = "string" /\ message.value # ""

\* typeof exceptionResponse === 'object': getResponse() is an object with
\* an optional message, or the string the exception was made with
IsObject(exceptionResponse) == "message" \in DOMAIN exceptionResponse

\* catch(exception, host): the status and the JSON body sent; requestId is
\* request.requestId and t the reading of new Date()
catch(exception, requestId, t) ==
  LET status == exception.status
      responseObj == exception.response
      isObject == IsObject(responseObj)
      isValidation ==
        isObject /\ status = BAD_REQUEST /\ MessageTruthy(responseObj.message)
      errorCode ==
        IF ~isObject THEN "INTERNAL_ERROR"
        ELSE IF isValidation THEN "VALIDATION_ERROR"
        ELSE IF status = UNAUTHORIZED THEN "AUTHENTICATION_ERROR"
        ELSE IF status = FORBIDDEN THEN "AUTHORIZATION_ERROR"
        ELSE IF status = NOT_FOUND THEN "RESOURCE_NOT_FOUND"
        ELSE IF status = CONFLICT THEN "RESOURCE_CONFLICT"
        ELSE IF status = TOO_MANY_REQUESTS THEN "RATE_LIMIT_EXCEEDED"
        ELSE "INTERNAL_ERROR"
      branchMessage ==
        IF ~isObject THEN "An unexpected error occurred"
        ELSE IF isValidation THEN "The request contains invalid data"
        ELSE IF status = UNAUTHORIZED THEN "Authentication failed"
        ELSE IF status = FORBIDDEN THEN "Access denied"
        ELSE IF status = NOT_FOUND THEN "Requested resource not found"
        ELSE IF status = CONFLICT THEN "Resource already exists"
        ELSE IF status = TOO_MANY_REQUESTS THEN "Too many requests"
        ELSE "An unexpected error occurred"
      errorMessage ==
        IF /\ isObject
           /\ responseObj.message.type = "string"
           /\ responseObj.message.value # ""
        THEN responseObj.message.value
        ELSE branchMessage
      errorDetails ==
        IF isValidation /\ responseObj.message.type = "array"
        THEN Some([i \in 1..Len(responseObj.message.value) |->
                     [field |-> "unknown", code |-> "VALIDATION_FAILED",
                      message |-> responseObj.message.value[i]]])
        ELSE Undefined
  IN [status |-> status,
      body |-> [success |-> FALSE,
                error |-> [code |-> errorCode, message |-> errorMessage,
                           details |-> errorDetails],
                meta |-> [timestamp |-> toISOString(t),
                          requestId |-> IF Truthy(requestId) THEN Val(requestId)
                                        ELSE "unknown"]]]

---------------------------------------------------------------------------
(* ItemsController *)

\* Math.floor in place of Math.ceil
CeilDiv_floor(total, limit) == total \div limit

\* Math.ceil(total / limit) for total >= 0 and limit > 0
CeilDiv(total, limit) == (total + limit - 1) \div limit

Null == <<>>

\* the application/x-www-form-urlencoded form of a string of letters,
\* digits and commas: a comma is written %2C
RECURSIVE urlencodedFrom(_, _)
urlencodedFrom(s, i) ==
  IF i > Len(s) THEN ""
  ELSE (IF SubSeq(s, i, i) = "," THEN "%2C" ELSE SubSeq(s, i, i))
       \o urlencodedFrom(s, i + 1)

urlencoded(s) == urlencodedFrom(s, 1)

\* query parameters that leave out the order
URLSearchParams_withoutOrder(limit, sortField, order) ==
  "limit=" \o String(limit) \o "&sort=" \o urlencoded(sortField)

\* new URLSearchParams({limit, sort, order}).toString()
URLSearchParams(limit, sortField, order) ==
  "limit=" \o String(limit) \o "&sort=" \o urlencoded(sortField)
    \o "&order=" \o urlencoded(order)

\* GET /v1/items: ItemsController.findAll(query); found is what
\* itemsService.findAll(query) returned and t the reading of new Date()
findAllHandler(found, query, t) ==
  LET total == found.total
      page == OrNum(query.page, DefaultPage)
      limit == OrNum(query.limit, DefaultLimit)
      sortField == OrStr(query.sort, "id")
      order == OrStr(query.order, "asc")
      totalPages == CeilDiv(total, limit)
      hasNext == page < totalPages
      hasPrev == page > 1
      baseUrl == "/v1/items"
      queryParams == URLSearchParams(limit, sortField, order)
      link(p) == Some(baseUrl \o "?page=" \o String(p) \o "&" \o queryParams)
      links == [self |-> link(page),
                first |-> link(1),
                last |-> link(totalPages),
                next |-> IF hasNext THEN link(page + 1) ELSE Null,
                prev |-> IF hasPrev THEN link(page - 1) ELSE Null]
      pagination == [page |-> page, limit |-> limit, total |-> total,
                     totalPages |-> totalPages, hasNext |-> hasNext,
                     hasPrev |-> hasPrev]
  IN [success |-> TRUE,
      data |-> found.items,
      meta |-> [timestamp |-> toISOString(t), version |-> "1.0.0",
                pagination |-> pagination],
      links |-> links]

\* DELETE /v1/items/:id: ItemsController.remove(id), with the exception of
\* the service translated by the filter
removeHandler(its, nid, id, requestId, t) ==
  LET r == remove(its, nid, id) IN
  IF r.ok
  THEN [items |-> r.items, nextId |-> r.nextId, ok |-> TRUE,
        status |-> NO_CONTENT, body |-> Undefined]
  ELSE LET e == catch(r.exception, requestId, t) IN
       [items |-> r.items, nextId |-> r.nextId, ok |-> FALSE,
        status |-> e.status, body |-> Some(e.body)]

---------------------------------------------------------------------------
(* The global ValidationPipe of main.ts and the request DTOs *)

OK == 200
CREATED == 201
INTERNAL_SERVER_ERROR == 500

\* class-validator on an optional string of the request body
IsString(o) == IsDefined(o)
IsNotEmpty(o) == IsDefined(o) /\ Val(o) # ""
MinLength(o, min) == IsDefined(o) /\ Len(Val(o)) >= min
\* @IsOptional(): the other validators of the property are skipped
IsOptional(o) == ~IsDefined(o)

\* the messages of the checks that failed, in the order of the checks
Messages(checks) ==
  LET failed == SelectSeq(checks, LAMBDA c : ~c.ok)
  IN [i \in 1..Len(failed) |-> failed[i].message]

\* validation of CreateItemDto.data.attributes (nested through
\* @ValidateNested and @Type): the messages of the violated constraints, the
\* decorators of a property taken bottom-up
CreateItemAttributesDto(name, description) ==
  Messages(
    << [ok |-> MinLength(name, 1),
        message |-> "data.attributes.name must be longer than or equal to 1 characters"],
       [ok |-> IsNotEmpty(name),
        message |-> "data.attributes.name should not be empty"],
       [ok |-> IsString(name),
        message |-> "data.attributes.name must be a string"] >>
    \o (IF IsOptional(description) THEN <<>>
        ELSE << [ok |-> IsString(description),
                 message |-> "data.attributes.description must be a string"] >>))

\* an update DTO that keeps its data through the pipe
UpdateItemDto_keepsData(body) == body

\* UpdateItemDto through the pipe: its property data has no validation
\* decorator, so whitelist: true strips it and nothing below it is validated
UpdateItemDto(body) == [data |-> Undefined]

\* the BadRequestException of the pipe for a list of messages
BadRequestException(messages) ==
  [status |-> BAD_REQUEST,
   response |-> [message |-> [type |-> "array", value |-> messages],
                 error |-> "Bad Request", statusCode |-> BAD_REQUEST]]

\* what Nest answers for an error that is no HttpException, which the
\* filter (@Catch(HttpException)) does not see
InternalServerError ==
  [status |-> INTERNAL_SERVER_ERROR,
   body |-> [statusCode |-> INTERNAL_SERVER_ERROR,
             message |-> "Internal server error"]]

\* POST /v1/items: the pipe, then ItemsController.create; t1 and t2 are the
\* two readings of new Date() of createSimple and t3 the reading of the
\* controller for meta.timestamp
createHandler(its, nid, name, description, requestId, t1, t2, t3) ==
  LET violations == CreateItemAttributesDto(name, description) IN
  IF violations # <<>>
  THEN LET e == catch(BadRequestException(violations), requestId, t1) IN
       [items |-> its, nextId |-> nid, ok |-> FALSE,
        status |-> e.status, body |-> e.body]
  ELSE LET r == createSimple(its, nid, Val(name),
                             IF Truthy(description) THEN Val(description) ELSE "",
                             t1, t2)
       IN [items |-> r.items, nextId |-> r.nextId, ok |-> TRUE,
           status |-> CREATED,
           body |-> [success |-> TRUE, data |-> r.ret,
                     meta |-> [timestamp |-> toISOString(t3),
                               version |-> "1.0.0"]]]

\* PATCH /v1/items/:id: the pipe, then ItemsController.update; reading
\* updateItemDto.data.attributes of a DTO without data is a TypeError; t is
\* the reading of new Date() of updateSimple, or of the filter when
\* updateSimple throws, and t2 the reading of the controller for
\* meta.timestamp
updateHandler(its, nid, id, body, requestId, t, t2) ==
  LET updateItemDto == UpdateItemDto(body) IN
  IF ~IsDefined(updateItemDto.data)
  THEN [items |-> its, nextId |-> nid, ok |-> FALSE,
        status |-> InternalServerError.status, body |-> InternalServerError.body]
  ELSE LET attributes == Val(updateItemDto.data)
           r == updateSimple(its, nid, id, attributes.name,
                             attributes.description, t)
       IN IF r.ok
          THEN [items |-> r.items, nextId |-> r.nextId, ok |-> TRUE,
                status |-> OK,
                body |-> [success |-> TRUE, data |-> r.ret,
                          meta |-> [timestamp |-> toISOString(t2),
                                    version |-> "1.0.0"]]]
          ELSE LET e == catch(r.exception, requestId, t) IN
               [items |-> r.items, nextId |-> r.nextId, ok |-> FALSE,
                status |-> e.status, body |-> e.body]

MinPage == 1
MinLimit == 1
MaxLimit == 100

\* Number(s) for a string of decimal digits (@Type(() => Number))
RECURSIVE NumberFrom(_, _)
NumberFrom(s, n) ==
  IF n = 0 THEN 0
  ELSE 10 * NumberFrom(s, n - 1) + (IndexOf("0123456789", SubSeq(s, n, n)) - 1)

Number(s) == NumberFrom(s, Len(s))

\* plainToInstance(PaginationQueryDto, raw): a parameter that is absent keeps
\* the default of its property, page and limit are converted to numbers
PaginationQuery(raw) ==
  [page |-> IF IsDefined(raw.page) THEN Number(Val(raw.page)) ELSE DefaultPage,
   limit |-> IF IsDefined(raw.limit) THEN Number(Val(raw.limit)) ELSE DefaultLimit,
   sort |-> IF IsDefined(raw.sort) THEN Val(raw.sort) ELSE "id",
   order |-> IF IsDefined(raw.order) THEN Val(raw.order) ELSE "asc"]

\* a query DTO whose limit has no @Max
PaginationQueryDto_noMax(raw) ==
  LET query == PaginationQuery(raw) IN
  Messages(
    << [ok |-> query.page >= MinPage,
        message |-> "page must not be less than 1"],
       [ok |-> query.limit >= MinLimit,
        message |-> "limit must not be less than 1"],
       [ok |-> query.order \in {"asc", "desc"},
        message |-> "order must be one of the following values: asc, desc"] >>)

\* validation of PaginationQueryDto: the messages of the violated
\* constraints, the decorators of a property taken bottom-up
PaginationQueryDto(raw) ==
  LET query == PaginationQuery(raw) IN
  Messages(
    << [ok |-> query.page >= MinPage,
        message |-> "page must not be less than 1"],
       [ok |-> query.limit <= MaxLimit,
        message |-> "limit must not be greater than 100"],
       [ok |-> query.limit >= MinLimit,
        message |-> "limit must not be less than 1"],
       [ok |-> query.order \in {"asc", "desc"},
        message |-> "order must be one of the following values: asc, desc"] >>)

\* GET /v1/items: the pipe, then ItemsController.findAll
listHandler(its, raw, requestId, t) ==
  LET violations == PaginationQueryDto(raw) IN
  IF violations # <<>>
  THEN LET e == catch(BadRequestException(violations), requestId, t) IN
       [ok |-> FALSE, status |-> e.status, body |-> e.body]
  ELSE LET query == PaginationQuery(raw) IN
       [ok |-> TRUE, status |-> OK,
        body |-> findAllHandler(findAll(its, query), query, t)]

---------------------------------------------------------------------------
(* ErrorBoundary of the web application *)

maxRetries == 3
BaseDelay == 2000

\* this.resetTimeoutId === null
NoTimeout == 0

\* the delay handleAutoRetry hands to window.setTimeout
retryDelay(retryCount) == BaseDelay * (retryCount + 1)

\* handleReset(): setState of a mounted component; React drops the setState
\* of a component that is unmounted
handleReset(b) ==
  IF b.mounted
  THEN [b EXCEPT !.hasError = FALSE, !.retryCount = @ + 1]
  ELSE b

---------------------------------------------------------------------------
(* useOptimisticAction of the web application *)

\* the ids of the items the component starts with
initialData == <<"1", "2", "3">>

\* the optimisticUpdate of a deletion: the list without the item
optimisticUpdate(data, optimisticValue) ==
  SelectSeq(data, LAMBDA id : id # optimisticValue)

\* executeOptimistic(optimisticValue, actionFn) up to startTransition; data
\* in the callback is the data of the render that made the callback
\* (o.rendered), not the state that calls since that render have set: it is
\* the backup and the argument of optimisticUpdate; the optimistic data is
\* set, the error cleared and the action is in flight
executeOptimistic(o, optimisticValue) ==
  [o EXCEPT !.data = optimisticUpdate(o.rendered, optimisticValue),
            !.error = Null,
            !.inflight = @ \cup {[n |-> o.started + 1,
                                  backupData |-> o.rendered,
                                  optimisticValue |-> optimisticValue]},
            !.started = @ + 1]

\* actionFn() resolved with result: setData(result)
resolved(o, action, result) ==
  [o EXCEPT !.data = result,
            !.inflight = @ \ {action}]

\* actionFn() rejected: setData(backupData), setError(message)
rejected(o, action, message) ==
  [o EXCEPT !.data = action.backupData,
            !.error = Some(message),
            !.inflight = @ \ {action}]

---------------------------------------------------------------------------
(* Inputs of the calls *)

\* names and descriptions given to create and createSimple
Names == {"A"}
Descriptions == {"", "D"}
OptDescriptions == {Undefined} \cup {Some(s) : s \in Descriptions}

\* names and descriptions given to update and updateSimple
UpdateNames == {Undefined, Some("A")}
UpdateDescriptions == {Undefined, Some("")}

\* names and descriptions of a run of updates: absent, empty, or a text
AnyNames == {Undefined, Some(""), Some("B")}
AnyDescriptions == {Undefined, Some(""), Some("E")}

\* the ids the store can assign in one run, and one more that it never holds
Ids == {String(n) : n \in 1..(SeedNextId + MaxCreates)}

Pages == 1..2
Limits == {2, DefaultLimit}
\* "priority" is not a field of Item
SortFields == {"id", "name", "priority"}
Orders == {"asc", "desc"}
RequestIds == {Undefined, Some("req1")}

IdsOf(its) == {its[i].id : i \in 1..Len(its)}

\* no call is in progress: the service takes one call at a time and each
\* call runs to completion
Idle == [op |-> "idle"]

---------------------------------------------------------------------------
(* The state machine *)

Init ==
  /\ items = SeedItems
  /\ nextId = SeedNextId
  /\ now = StartTime
  /\ res = Idle
  /\ everIds = IdsOf(SeedItems)
  /\ calls = 0
  /\ boundary = [mounted |-> TRUE, hasError |-> FALSE, network |-> FALSE,
                 retryCount |-> 0, resetTimeoutId |-> NoTimeout,
                 lastTimeoutId |-> 0]
  /\ timers = {}
  /\ delays = {}
  /\ client = [clicks |-> 0, requests |-> {}, outcomes |-> {}]
  /\ optimistic = [data |-> initialData, rendered |-> initialData,
                   error |-> Null, server |-> initialData,
                   inflight |-> {}, started |-> 0, base |-> initialData,
                   resolved |-> FALSE, rejected |-> {}]

\* the clock advances by one millisecond
Tick ==
  /\ res = Idle
  /\ now < StartTime + MaxTicks
  /\ now' = now + 1
  /\ UNCHANGED <<items, nextId, res, everIds, calls>>
  /\ UNCHANGED uiVars

\* the clock may advance between the two new Date() of a create
Create ==
  /\ res = Idle
  /\ calls < MaxCalls
  /\ nextId < SeedNextId + MaxCreates
  /\ \E name \in Names, description \in OptDescriptions, d \in 0..1 :
       /\ now + d <= StartTime + MaxTicks
       /\ LET data == [name |-> name, description |-> description]
              r == create(items, nextId, data, now, now + d)
          IN /\ items' = r.items
             /\ nextId' = r.nextId
             /\ res' = [op |-> "create", data |-> data, ok |-> TRUE, ret |-> r.ret]
             /\ everIds' = everIds \cup IdsOf(r.items)
       /\ now' = now + d
  /\ calls' = calls + 1
  /\ UNCHANGED uiVars

CreateSimple ==
  /\ res = Idle
  /\ calls < MaxCalls
  /\ nextId < SeedNextId + MaxCreates
  /\ \E name \in Names, description \in Descriptions, d \in 0..1 :
       /\ now + d <= StartTime + MaxTicks
       /\ LET r == createSimple(items, nextId, name, description, now, now + d)
          IN /\ items' = r.items
             /\ nextId' = r.nextId
             /\ res' = [op |-> "createSimple",
                        data |-> [name |-> name, description |-> Some(description)],
                        ok |-> TRUE, ret |-> r.ret]
             /\ everIds' = everIds \cup IdsOf(r.items)
       /\ now' = now + d
  /\ calls' = calls + 1
  /\ UNCHANGED uiVars

Update ==
  /\ res = Idle
  /\ \E id \in Ids, name \in UpdateNames, description \in UpdateDescriptions :
    LET data == [name |-> name, description |-> description]
        r == update(items, nextId, id, data, now)
    IN /\ r.ok => calls < MaxCalls
       /\ items' = r.items
       /\ nextId' = r.nextId
       /\ res' = IF r.ok
                 THEN [op |-> "update", id |-> id, data |-> data, ok |-> TRUE,
                       ret |-> r.ret]
                 ELSE [op |-> "update", id |-> id, ok |-> FALSE,
                       exception |-> r.exception]
       /\ everIds' = everIds \cup IdsOf(r.items)
       /\ calls' = IF r.ok THEN calls + 1 ELSE calls
       /\ UNCHANGED now
  /\ UNCHANGED uiVars

UpdateSimple ==
  /\ res = Idle
  /\ \E id \in Ids, name \in UpdateNames, description \in UpdateDescriptions :
    LET data == [name |-> name, description |-> description]
        r == updateSimple(items, nextId, id, name, description, now)
    IN /\ r.ok => calls < MaxCalls
       /\ items' = r.items
       /\ nextId' = r.nextId
       /\ res' = IF r.ok
                 THEN [op |-> "updateSimple", id |-> id, data |-> data, ok |-> TRUE,
                       ret |-> r.ret]
                 ELSE [op |-> "updateSimple", id |-> id, ok |-> FALSE,
                       exception |-> r.exception]
       /\ everIds' = everIds \cup IdsOf(r.items)
       /\ calls' = IF r.ok THEN calls + 1 ELSE calls
       /\ UNCHANGED now
  /\ UNCHANGED uiVars

\* DELETE /v1/items/:id; bounded says whether the removal counts as one of
\* the MaxCalls state-changing calls of the run
RemoveCall(id, requestId, bounded) ==
  LET r == removeHandler(items, nextId, id, requestId, now)
  IN /\ (bounded /\ r.ok) => calls < MaxCalls
     /\ items' = r.items
     /\ nextId' = r.nextId
     /\ res' = [op |-> "remove", id |-> id, ok |-> r.ok, status |-> r.status,
                body |-> r.body]
     /\ everIds' = everIds \cup IdsOf(r.items)
     /\ calls' = IF bounded /\ r.ok THEN calls + 1 ELSE calls
     /\ UNCHANGED now

Remove ==
  /\ res = Idle
  /\ \E id \in Ids, requestId \in RequestIds : RemoveCall(id, requestId, TRUE)
  /\ UNCHANGED uiVars

\* a removal in a run of removals and reads only: the store bounds their number
RemoveAny ==
  /\ res = Idle
  /\ \E id \in Ids, requestId \in RequestIds : RemoveCall(id, requestId, FALSE)
  /\ UNCHANGED uiVars

FindOne ==
  /\ res = Idle
  /\ \E id \in Ids :
       LET r == findOne(items, id)
       IN res' = IF r.ok
                 THEN [op |-> "findOne", id |-> id, ok |-> TRUE, ret |-> r.ret]
                 ELSE [op |-> "findOne", id |-> id, ok |-> FALSE,
                       exception |-> r.exception]
  /\ UNCHANGED <<items, nextId, now, everIds, calls>>
  /\ UNCHANGED uiVars

FindAll ==
  /\ res = Idle
  /\ \E page \in Pages, limit \in Limits, sortField \in SortFields, order \in Orders :
       LET query == [page |-> page, limit |-> limit, sort |-> sortField,
                     order |-> order]
           found == findAll(items, query)
       IN /\ res' = [op |-> "findAll", query |-> query, ok |-> TRUE,
                     response |-> findAllHandler(found, query, now)]
          /\ items' = findAllItems(items, query)
  /\ UNCHANGED <<nextId, now, everIds, calls>>
  /\ UNCHANGED uiVars

\* the call in progress returns its result (or its exception) to the caller
Return ==
  /\ res # Idle
  /\ res' = Idle
  /\ UNCHANGED <<items, nextId, now, everIds, calls>>
  /\ UNCHANGED uiVars

Next ==
  \/ Tick
  \/ Create
  \/ CreateSimple
  \/ Update
  \/ UpdateSimple
  \/ Remove
  \/ FindOne
  \/ FindAll
  \/ Return

Spec == Init /\ [][Next]_vars

\* the service under removals and reads only, down to the empty store
NextRemovals ==
  \/ RemoveAny
  \/ FindOne
  \/ FindAll
  \/ Return

SpecRemovals == Init /\ [][NextRemovals]_vars

\* the service with the clock standing still
NextCalls ==
  \/ Create
  \/ CreateSimple
  \/ Update
  \/ UpdateSimple
  \/ Remove
  \/ FindOne
  \/ FindAll
  \/ Return

SpecCalls == Init /\ [][NextCalls]_vars

---------------------------------------------------------------------------
(* The requests of the HTTP interface *)

\* name and description of the attributes of a POST body
RequestNames == {Undefined, Some(""), Some("A")}
RequestDescriptions == {Undefined, Some("D")}
\* bodies of PATCH
PatchBodies ==
  {[data |-> Some([name |-> name, description |-> Undefined])] :
     name \in {Some(""), Some("B")}}
\* query parameters of GET, as they are written in the URL
RawPages == {Undefined, Some("0"), Some("2")}
RawLimits == {Undefined, Some("0"), Some("2"), Some("100"), Some("101")}
RawSorts == {Undefined, Some("name"), Some("name,createdAt")}
RawOrders == {Undefined, Some("desc")}

\* POST /v1/items; the clock may advance between the readings of new Date()
PostItems ==
  /\ res = Idle
  /\ \E name \in RequestNames, description \in RequestDescriptions,
        requestId \in RequestIds, d1 \in 0..1, d2 \in 0..1 :
       LET d == d1 + d2
           r == createHandler(items, nextId, name, description, requestId,
                              now, now + d1, now + d)
       IN /\ now + d <= StartTime + MaxTicks
          /\ r.ok => (calls < MaxCalls /\ nextId < SeedNextId + MaxCreates)
          /\ ~r.ok => d = 0
          /\ items' = r.items
          /\ nextId' = r.nextId
          /\ res' = [op |-> "POST", name |-> name, description |-> description,
                     ok |-> r.ok, status |-> r.status, body |-> r.body]
          /\ everIds' = everIds \cup IdsOf(r.items)
          /\ calls' = IF r.ok THEN calls + 1 ELSE calls
          /\ now' = now + d
  /\ UNCHANGED uiVars

\* PATCH /v1/items/:id
PatchItem ==
  /\ res = Idle
  /\ \E id \in Ids, body \in PatchBodies, requestId \in RequestIds, d \in 0..1 :
       LET r == updateHandler(items, nextId, id, body, requestId, now, now + d)
       IN /\ now + d <= StartTime + MaxTicks
          /\ r.ok => calls < MaxCalls
          /\ ~r.ok => d = 0
          /\ items' = r.items
          /\ nextId' = r.nextId
          /\ res' = [op |-> "PATCH", id |-> id, data |-> body,
                     ok |-> r.ok, status |-> r.status, body |-> r.body]
          /\ everIds' = everIds \cup IdsOf(r.items)
          /\ calls' = IF r.ok THEN calls + 1 ELSE calls
          /\ now' = now + d
  /\ UNCHANGED uiVars

\* GET /v1/items
GetItems ==
  /\ res = Idle
  /\ \E page \in RawPages, limit \in RawLimits, sortField \in RawSorts,
        order \in RawOrders, requestId \in RequestIds :
       LET raw == [page |-> page, limit |-> limit, sort |-> sortField,
                   order |-> order]
           r == listHandler(items, raw, requestId, now)
       IN res' = [op |-> "GET", raw |-> raw, ok |-> r.ok, status |-> r.status,
                  body |-> r.body]
  /\ UNCHANGED <<items, nextId, now, everIds, calls>>
  /\ UNCHANGED uiVars

NextRequests ==
  \/ Tick
  \/ PostItems
  \/ PatchItem
  \/ GetItems
  \/ Remove
  \/ Return

\* the service behind its controller, pipe and filter
SpecRequests == Init /\ [][NextRequests]_vars

\* a create in a run that grows the store: the store bounds their number
CreateAny ==
  /\ res = Idle
  /\ nextId < SeedNextId + MaxGrowth
  /\ \E name \in Names :
       LET r == createSimple(items, nextId, name, "", now, now)
       IN /\ items' = r.items
          /\ nextId' = r.nextId
          /\ res' = [op |-> "createSimple",
                     data |-> [name |-> name, description |-> Some("")],
                     ok |-> TRUE, ret |-> r.ret]
          /\ everIds' = everIds \cup IdsOf(r.items)
  /\ UNCHANGED <<now, calls>>
  /\ UNCHANGED uiVars

\* the same through create, with and without a description
CreateDtoAny ==
  /\ res = Idle
  /\ nextId < SeedNextId + MaxGrowth
  /\ \E name \in Names, description \in {Undefined, Some("D")} :
       LET data == [name |-> name, description |-> description]
           r == create(items, nextId, data, now, now)
       IN /\ items' = r.items
          /\ nextId' = r.nextId
          /\ res' = [op |-> "create", data |-> data, ok |-> TRUE, ret |-> r.ret]
          /\ everIds' = everIds \cup IdsOf(r.items)
  /\ UNCHANGED <<now, calls>>
  /\ UNCHANGED uiVars

\* the service under creates, removals and lookups only: runs of several
\* creates, with removals between them
NextCreates ==
  \/ CreateAny
  \/ CreateDtoAny
  \/ RemoveAny
  \/ FindOne
  \/ Return

SpecCreates == Init /\ [][NextCreates]_vars

NextGrowth ==
  \/ CreateAny
  \/ RemoveAny
  \/ GetItems
  \/ Return

\* the list endpoint over a store that grows to ids of two digits
SpecGrowth == Init /\ [][NextGrowth]_vars

\* an update in a run of updates and reads only, the empty name among its
\* inputs
UpdateAny ==
  /\ res = Idle
  /\ \E id \in Ids, name \in AnyNames, description \in AnyDescriptions :
    LET data == [name |-> name, description |-> description]
        r == update(items, nextId, id, data, now)
    IN /\ items' = r.items
       /\ nextId' = r.nextId
       /\ res' = IF r.ok
                 THEN [op |-> "update", id |-> id, data |-> data, ok |-> TRUE,
                       ret |-> r.ret]
                 ELSE [op |-> "update", id |-> id, ok |-> FALSE,
                       exception |-> r.exception]
       /\ everIds' = everIds \cup IdsOf(r.items)
  /\ UNCHANGED <<now, calls>>
  /\ UNCHANGED uiVars

UpdateSimpleAny ==
  /\ res = Idle
  /\ \E id \in Ids, name \in AnyNames, description \in AnyDescriptions :
    LET data == [name |-> name, description |-> description]
        r == updateSimple(items, nextId, id, name, description, now)
    IN /\ items' = r.items
       /\ nextId' = r.nextId
       /\ res' = IF r.ok
                 THEN [op |-> "updateSimple", id |-> id, data |-> data, ok |-> TRUE,
                       ret |-> r.ret]
                 ELSE [op |-> "updateSimple", id |-> id, ok |-> FALSE,
                       exception |-> r.exception]
       /\ everIds' = everIds \cup IdsOf(r.items)
  /\ UNCHANGED <<now, calls>>
  /\ UNCHANGED uiVars

NextUpdates ==
  \/ UpdateAny
  \/ UpdateSimpleAny
  \/ FindOne
  \/ Return

\* the service under updates and reads only
SpecUpdates == Init /\ [][NextUpdates]_vars

---------------------------------------------------------------------------
(* The exception filter on the exceptions a handler can throw *)

ExceptionStatuses ==
  {BAD_REQUEST, UNAUTHORIZED, FORBIDDEN, NOT_FOUND, CONFLICT,
   UNPROCESSABLE_ENTITY, TOO_MANY_REQUESTS, INTERNAL_SERVER_ERROR}

\* the message of an exception response: none, the text the exception was
\* made with, or the list of messages of a failed validation
ExceptionMessages ==
  {[type |-> "undefined"],
   [type |-> "string", value |-> "connect ECONNREFUSED db"],
   [type |-> "array", value |-> <<"data.attributes.name should not be empty">>]}

\* new XyzException(message) has an object response; new HttpException(text,
\* status) has the text as its response
Exceptions ==
  {[status |-> st, response |-> [message |-> m, statusCode |-> st]] :
     st \in ExceptionStatuses, m \in ExceptionMessages}
  \cup
  {[status |-> st, response |-> [text |-> "connect ECONNREFUSED db"]] :
     st \in ExceptionStatuses}

\* a handler throws an HttpException and the filter answers
Catch ==
  /\ res = Idle
  /\ \E exception \in Exceptions, requestId \in RequestIds :
       LET e == catch(exception, requestId, now)
       IN res' = [op |-> "catch", exception |-> exception,
                  status |-> e.status, body |-> e.body]
  /\ UNCHANGED <<items, nextId, now, everIds, calls>>
  /\ UNCHANGED uiVars

NextFilter ==
  \/ Tick
  \/ Catch
  \/ Return

SpecFilter == Init /\ [][NextFilter]_vars

---------------------------------------------------------------------------
(* The web client: apiRequest, itemsApi.deleteItem and handleDelete *)

\* Response.ok
ResponseOk(response) == response.status >= 200 /\ response.status <= 299

\* new ApiError(code, message, status, details)
ApiError(code, message, status, details) ==
  [name |-> "ApiError", code |-> code, message |-> message, status |-> status,
   details |-> details]

\* apiRequest(endpoint, options) on the response that fetch resolved with:
\* response.json() of an empty body throws a SyntaxError
apiRequest(response) ==
  IF ~IsDefined(response.body)
  THEN [threw |-> TRUE, error |-> [name |-> "SyntaxError"]]
  ELSE LET data == Val(response.body) IN
       IF ~ResponseOk(response)
       THEN IF "success" \in DOMAIN data /\ data.success = FALSE
            THEN [threw |-> TRUE,
                  error |-> ApiError(data.error.code, data.error.message,
                                     response.status, data.error.details)]
            ELSE [threw |-> TRUE,
                  error |-> ApiError("UNKNOWN_ERROR",
                                     "Request failed with status "
                                       \o String(response.status),
                                     response.status, Undefined)]
       ELSE [threw |-> FALSE, value |-> data]

\* itemsApi.deleteItem(id) on the response of DELETE /v1/items/:id
deleteItem(response) ==
  LET r == apiRequest(response) IN
  IF r.threw THEN r ELSE [threw |-> FALSE, value |-> Undefined]

\* handleDelete(item) after the answer of the server has come: what
\* deleteItem did and the id that onItemDeleted was called with, if it was
\* called
handleDelete(id, response) ==
  LET r == deleteItem(response) IN
  IF r.threw
  THEN [threw |-> TRUE, error |-> r.error, onItemDeleted |-> Undefined]
  ELSE [threw |-> FALSE, onItemDeleted |-> Some(id)]

\* a click on Delete of the item id, which the list on screen may still show
\* after the server has removed it: handleDelete up to its return. When the
\* user confirms, the item is taken out of the optimistic list (the ids of
\* the requests in flight) and the request is sent
HandleDelete ==
  /\ client.clicks < MaxDeletes
  /\ \E id \in Ids, confirmed \in BOOLEAN :
       client' = [client EXCEPT
                    !.clicks = @ + 1,
                    !.requests = IF confirmed
                                 THEN @ \cup {[n |-> client.clicks + 1, id |-> id,
                                               answered |-> FALSE]}
                                 ELSE @]
  /\ UNCHANGED apiVars
  /\ UNCHANGED boundaryVars
  /\ UNCHANGED optimistic

\* the server handles the DELETE /v1/items/:id of a request of the client
ServeDelete ==
  /\ res = Idle
  /\ \E request \in client.requests, requestId \in RequestIds :
       /\ ~request.answered
       /\ LET r == removeHandler(items, nextId, request.id, requestId, now)
              response == [status |-> r.status, body |-> r.body]
          IN /\ items' = r.items
             /\ nextId' = r.nextId
             /\ everIds' = everIds \cup IdsOf(r.items)
             /\ client' = [client EXCEPT
                             !.requests = (@ \ {request}) \cup
                               {[n |-> request.n, id |-> request.id,
                                 answered |-> TRUE, response |-> response]}]
  /\ UNCHANGED <<now, res, calls>>
  /\ UNCHANGED boundaryVars
  /\ UNCHANGED optimistic

\* the answer reaches the client: apiRequest goes on after fetch, and the
\* transition of handleDelete calls onItemDeleted or logs the error
DeleteAnswered ==
  /\ \E request \in client.requests :
       /\ request.answered
       /\ client' = [client EXCEPT
                       !.requests = @ \ {request},
                       !.outcomes = @ \cup
                         {[n |-> request.n, id |-> request.id,
                           response |-> request.response,
                           client |-> handleDelete(request.id, request.response)]}]
  /\ UNCHANGED apiVars
  /\ UNCHANGED boundaryVars
  /\ UNCHANGED optimistic

\* Remove is the DELETE of another client
NextClient ==
  \/ Tick
  \/ HandleDelete
  \/ ServeDelete
  \/ DeleteAnswered
  \/ Remove
  \/ Return

\* the list of the web client deleting items of the server
SpecClient == Init /\ [][NextClient]_vars

---------------------------------------------------------------------------
(* The events of the ErrorBoundary *)

\* a child throws while rendering: getDerivedStateFromError; network says
\* whether categorizeError finds a network error
ChildThrows ==
  /\ boundary.mounted /\ ~boundary.hasError
  /\ \E network \in BOOLEAN :
       boundary' = [boundary EXCEPT !.hasError = TRUE, !.network = network]
  /\ UNCHANGED <<timers, delays>>
  /\ UNCHANGED apiVars
  /\ UNCHANGED <<optimistic, client>>

\* a click on 'Try Again', which is rendered while canRetry
TryAgain ==
  /\ boundary.mounted /\ boundary.hasError
  /\ boundary.retryCount < maxRetries
  /\ boundary.retryCount < MaxResets
  /\ boundary' = handleReset(boundary)
  /\ UNCHANGED <<timers, delays>>
  /\ UNCHANGED apiVars
  /\ UNCHANGED <<optimistic, client>>

\* a click on 'Auto Retry in 2s', which is rendered for a network error:
\* handleAutoRetry
AutoRetry ==
  /\ boundary.mounted /\ boundary.hasError /\ boundary.network
  /\ boundary.lastTimeoutId < MaxTimeouts
  /\ IF boundary.retryCount < maxRetries
     THEN LET id == boundary.lastTimeoutId + 1
              delay == retryDelay(boundary.retryCount)
          IN /\ timers' = timers \cup {[id |-> id, delay |-> delay]}
             /\ boundary' = [boundary EXCEPT !.resetTimeoutId = id,
                                             !.lastTimeoutId = id]
             /\ delays' = delays \cup {[retryCount |-> boundary.retryCount,
                                        delay |-> delay]}
     ELSE UNCHANGED <<boundary, timers, delays>>
  /\ UNCHANGED apiVars
  /\ UNCHANGED <<optimistic, client>>

\* a timeout of handleAutoRetry fires
TimeoutFires ==
  /\ boundary.retryCount < MaxResets
  /\ \E timer \in timers :
       /\ timers' = timers \ {timer}
       /\ boundary' = handleReset(boundary)
  /\ UNCHANGED delays
  /\ UNCHANGED apiVars
  /\ UNCHANGED <<optimistic, client>>

\* componentDidUpdate while the error is shown (hasError is read once, before
\* the resets): handleReset for children that changed under
\* resetOnPropsChange, and handleReset for a reset key that changed; both
\* updaters are applied when both changed
PropsChange ==
  /\ boundary.mounted /\ boundary.hasError
  /\ \E childrenChanged \in BOOLEAN, hasResetKeyChanged \in BOOLEAN :
       /\ childrenChanged \/ hasResetKeyChanged
       /\ IF childrenChanged /\ hasResetKeyChanged
          THEN /\ boundary.retryCount + 2 <= MaxResets
               /\ boundary' = handleReset(handleReset(boundary))
          ELSE /\ boundary.retryCount + 1 <= MaxResets
               /\ boundary' = handleReset(boundary)
  /\ UNCHANGED <<timers, delays>>
  /\ UNCHANGED apiVars
  /\ UNCHANGED <<optimistic, client>>

\* componentWillUnmount: clearTimeout of the timeout asked for last
Unmount ==
  /\ boundary.mounted
  /\ boundary' = [boundary EXCEPT !.mounted = FALSE]
  /\ timers' = {timer \in timers : timer.id # boundary.resetTimeoutId}
  /\ UNCHANGED delays
  /\ UNCHANGED apiVars
  /\ UNCHANGED <<optimistic, client>>

NextBoundary ==
  \/ ChildThrows
  \/ TryAgain
  \/ AutoRetry
  \/ TimeoutFires
  \/ PropsChange
  \/ Unmount

SpecBoundary == Init /\ [][NextBoundary]_vars

---------------------------------------------------------------------------
(* The events of useOptimisticAction *)

\* a call of executeOptimistic for the deletion of an item of the list on
\* screen; base is the data held before the first of the actions that overlap
ExecuteOptimistic ==
  /\ optimistic.started < MaxOptimistic
  /\ \E optimisticValue \in
          {optimistic.rendered[i] : i \in 1..Len(optimistic.rendered)} :
       LET o == executeOptimistic(optimistic, optimisticValue) IN
       optimistic' =
         IF optimistic.inflight = {}
         THEN [o EXCEPT !.base = optimistic.data, !.resolved = FALSE,
                        !.rejected = {}]
         ELSE o
  /\ UNCHANGED apiVars
  /\ UNCHANGED boundaryVars
  /\ UNCHANGED client

\* the request of an action in flight succeeds: the server deletes the item
\* and answers with its list
ActionResolves ==
  /\ \E action \in optimistic.inflight :
       LET result == optimisticUpdate(optimistic.server, action.optimisticValue)
           o == resolved(optimistic, action, result)
       IN optimistic' = [o EXCEPT !.server = result, !.resolved = TRUE]
  /\ UNCHANGED apiVars
  /\ UNCHANGED boundaryVars
  /\ UNCHANGED client

\* the request of an action in flight fails
ActionRejects ==
  /\ \E action \in optimistic.inflight :
       LET o == rejected(optimistic, action, "Failed to fetch") IN
       optimistic' = [o EXCEPT !.rejected = @ \cup {action.optimisticValue}]
  /\ UNCHANGED apiVars
  /\ UNCHANGED boundaryVars
  /\ UNCHANGED client

\* the component renders with the data that was set, and executeOptimistic
\* is made anew with it
Render ==
  /\ optimistic.rendered # optimistic.data
  /\ optimistic' = [optimistic EXCEPT !.rendered = optimistic.data]
  /\ UNCHANGED apiVars
  /\ UNCHANGED boundaryVars
  /\ UNCHANGED client

NextOptimistic ==
  \/ Render
  \/ ExecuteOptimistic
  \/ ActionResolves
  \/ ActionRejects

SpecOptimistic == Init /\ [][NextOptimistic]_vars

---------------------------------------------------------------------------
(* Properties *)

NoDuplicateIds(its) ==
  \A i, j \in 1..Len(its) : its[i].id = its[j].id => i = j

IsCreate(r) == r.op \in {"create", "createSimple"}
IsUpdate(r) == r.op \in {"update", "updateSimple"} /\ r.ok
IsFindAll(r) == r.op = "findAll"

\* C1: the id a create returns is the id of no record that was ever in the
\* store before, removed records included, and no two records of the store
\* share an id.
C1_CreatedIdIsFresh ==
  [][ /\ NoDuplicateIds(items) /\ NoDuplicateIds(items')
      /\ IsCreate(res') => /\ res'.ret.id \notin everIds
                           /\ res'.ret.id \in IdsOf(items') ]_vars

\* the third create of a run, after the record of the first create and a
\* seed record were removed: the store is shorter than the ids given out
C1_Witness ==
  /\ IsCreate(res)
  /\ res.ret.id = "6"
  /\ {"1", "4"} \subseteq everIds \ IdsOf(items)
  /\ "5" \in IdsOf(items)
  /\ Len(items) = 4

\* C2: a successful update or updateSimple keeps the name and the description
\* it was not given, keeps the id and createdAt of its target, and leaves
\* every other record as it was.
C2_UpdateFrame ==
  [][ IsUpdate(res') =>
        LET i == findIndex(items, res'.id) + 1 IN
        /\ Len(items') = Len(items)
        /\ items'[i].id = items[i].id
        /\ items'[i].createdAt = items[i].createdAt
        /\ res'.data.name = Undefined => items'[i].name = items[i].name
        /\ res'.data.description = Undefined =>
             items'[i].description = items[i].description
        /\ \A j \in 1..Len(items) : j # i => items'[j] = items[j] ]_vars

\* an update given a description and no name, on a store of several records
C2_Witness ==
  /\ res.op = "update" /\ res.ok
  /\ res.data.name = Undefined
  /\ res.data.description = Some("")
  /\ Len(items) >= 2
  /\ \E i \in 1..Len(items) :
       items[i].id = res.id /\ items[i].name = "Sample Item 2"
                            /\ items[i].description = ""

\* C3 as stated: every successful update makes updatedAt strictly greater
\* than it was.
C3_StrictlyGreater ==
  [][ IsUpdate(res') =>
        LET i == findIndex(items, res'.id) + 1 IN
        items'[i].updatedAt > items[i].updatedAt ]_vars

\* C3 amended: every successful update sets updatedAt to the clock value it
\* reads, which is never smaller than the value before (the clock does not
\* go back) and is equal to it when the record was last written at the same
\* clock value.
C3_UpdatedAtIsClock ==
  [][ IsUpdate(res') =>
        LET i == findIndex(items, res'.id) + 1 IN
        /\ items'[i].updatedAt = now
        /\ items'[i].updatedAt >= items[i].updatedAt
        /\ items'[i].updatedAt > items[i].updatedAt <=> now > items[i].updatedAt
     ]_vars

\* an update after the clock has advanced, on a record created in this run
C3_Witness ==
  /\ IsUpdate(res)
  /\ now > StartTime
  /\ \E i \in 1..Len(items) :
       /\ items[i].id = res.id
       /\ items[i].updatedAt = now
       /\ items[i].createdAt >= StartTime

\* C4: right after a create, findOne of the returned id succeeds and returns
\* the record the create returned, timestamps included.
C4_CreateThenFindOne ==
  IsCreate(res) =>
    LET r == findOne(items, res.ret.id) IN
    /\ r.ok
    /\ r.ret.id = res.ret.id
    /\ r.ret.attributes.name = res.ret.attributes.name
    /\ r.ret.attributes.description = res.ret.attributes.description
    /\ r.ret.attributes.createdAt = res.ret.attributes.createdAt
    /\ r.ret.attributes.updatedAt = res.ret.attributes.updatedAt

\* a createSimple into a store that lost a record, with the clock advancing
\* between its two readings
C4_Witness ==
  /\ res.op = "createSimple"
  /\ res.ret.attributes.description = "D"
  /\ res.ret.attributes.createdAt # res.ret.attributes.updatedAt
  /\ Len(items) = 3
  /\ items[3].id = "4"

\* the controller hands the page of the service on as data, and its total in
\* the pagination block
Pagination(r) == r.response.meta.pagination

\* C5: findAll returns min(limit, max(0, T - (page-1)*limit)) items and the
\* total T, for every sort field and order.
C5_PageLength ==
  IsFindAll(res) =>
    LET T == Len(items)
        page == res.query.page
        limit == res.query.limit
    IN /\ Len(res.response.data) = Min2(limit, Max2(0, T - (page - 1) * limit))
       /\ Pagination(res).total = T

\* the last, partly filled page of a sorted listing
C5_Witness ==
  /\ IsFindAll(res)
  /\ res.query = [page |-> 2, limit |-> 2, sort |-> "name", order |-> "desc"]
  /\ Len(items) = 3
  /\ Len(res.response.data) = 1

\* C6: totalPages is the ceiling of total/limit and is not negative, hasNext
\* is page < totalPages, hasPrev is page > 1; page 1 of one page has neither,
\* and 3 records with page 1 and limit 2 give total 3, totalPages 2, hasNext
\* and no hasPrev.
C6_PaginationBlock ==
  IsFindAll(res) =>
    LET p == Pagination(res) IN
    /\ p.page = res.query.page /\ p.limit = res.query.limit
    /\ p.total = Len(items)
    /\ p.totalPages >= 0
    /\ p.totalPages * p.limit >= p.total
    /\ p.totalPages > 0 => (p.totalPages - 1) * p.limit < p.total
    /\ p.hasNext <=> p.page < p.totalPages
    /\ p.hasPrev <=> p.page > 1
    /\ (p.page = 1 /\ p.totalPages = 1) => (~p.hasNext /\ ~p.hasPrev)
    /\ (Len(items) = 3 /\ p.page = 1 /\ p.limit = 2) =>
         (p.total = 3 /\ p.totalPages = 2 /\ p.hasNext /\ ~p.hasPrev)

\* three records listed with page 1 and limit 2
C6_Witness ==
  /\ IsFindAll(res)
  /\ Len(items) = 3
  /\ res.query.page = 1 /\ res.query.limit = 2
  /\ Pagination(res).totalPages = 2
  /\ Pagination(res).hasNext

OutOfRange(r) ==
  Pagination(r).page > Pagination(r).totalPages =>
    /\ r.response.success
    /\ r.response.data = <<>>
    /\ ~Pagination(r).hasNext
    /\ Pagination(r).total > 0 => Pagination(r).hasPrev

\* C7 as stated: a page beyond totalPages gives an empty list with no
\* hasNext and, if total > 0, hasPrev; an empty store gives totalPages 0, no
\* hasNext and no hasPrev for every requested page.
C7_EmptyStoreNoPrev ==
  IsFindAll(res) =>
    /\ OutOfRange(res)
    /\ Len(items) = 0 => /\ Pagination(res).totalPages = 0
                         /\ ~Pagination(res).hasNext
                         /\ ~Pagination(res).hasPrev

\* C7 amended: as stated, but on an empty store hasPrev is false for page 1
\* only; for a requested page above 1 it is true, as hasPrev is page > 1.
C7_OutOfRangePages ==
  IsFindAll(res) =>
    /\ OutOfRange(res)
    /\ Len(items) = 0 => /\ Pagination(res).totalPages = 0
                         /\ ~Pagination(res).hasNext
                         /\ Pagination(res).hasPrev <=> res.query.page > 1

\* page 2 of the empty store
C7_Witness ==
  /\ IsFindAll(res)
  /\ Len(items) = 0
  /\ res.query.page = 2
  /\ res.response.data = <<>>
  /\ Pagination(res).hasPrev

\* the position in the store of the record with this id
StoreIndex(id) == findIndex(items, id) + 1

\* C8: two records of a listing that are equal on the sort field are listed
\* in their order in the store, for asc and for desc.
C8_StableSort ==
  (IsFindAll(res) /\ res.query.sort = "name") =>
    LET data == res.response.data IN
    \A p, q \in 1..Len(data) :
      (p < q /\ data[p].attributes.name = data[q].attributes.name)
        => StoreIndex(data[p].id) < StoreIndex(data[q].id)

\* a descending listing by name with two records of the same name and a
\* third of another
C8_Witness ==
  /\ IsFindAll(res)
  /\ res.query.sort = "name" /\ res.query.order = "desc"
  /\ Len(res.response.data) = 3
  /\ res.response.data[2].attributes.name = res.response.data[3].attributes.name
  /\ res.response.data[1].attributes.name # res.response.data[2].attributes.name

\* C9 as stated: a sort field that the record does not have lists the
\* records as the sort field 'id' does with the same order.
C9_FallsBackToId ==
  (IsFindAll(res) /\ res.query.sort \notin StringFields \cup DateFields) =>
    res.response.data = findAll(items, [res.query EXCEPT !.sort = "id"]).items

\* the page of the store in storage order
StoragePage(query) ==
  LET first == (query.page - 1) * query.limit + 1
      last == Min2(query.page * query.limit, Len(items))
  IN [i \in 1..Max2(0, last - first + 1) |-> toDto(items[first + i - 1])]

\* C9 amended: a sort field that the record does not have leaves the records
\* in storage order, for asc and for desc.
C9_UnknownFieldKeepsStorageOrder ==
  (IsFindAll(res) /\ res.query.sort \notin StringFields \cup DateFields) =>
    res.response.data = StoragePage(res.query)

\* a descending listing by a field that is no field of the record
C9_Witness ==
  /\ IsFindAll(res)
  /\ res.query = [page |-> 1, limit |-> DefaultLimit, sort |-> "priority",
                  order |-> "desc"]
  /\ Len(res.response.data) >= 3

\* C10: remove of an id that is not in the store fails with status 404 and an
\* envelope with success false and code RESOURCE_NOT_FOUND, and leaves the
\* store as it was.
C10_RemoveAbsent ==
  [][ (res'.op = "remove" /\ res'.id \notin IdsOf(items)) =>
        /\ ~res'.ok
        /\ res'.status = NOT_FOUND
        /\ res'.body # Undefined
        /\ Val(res'.body).success = FALSE
        /\ Val(res'.body).error.code = "RESOURCE_NOT_FOUND"
        /\ items' = items
        /\ nextId' = nextId ]_vars

\* a second remove of a record that was removed before
C10_Witness ==
  /\ res.op = "remove"
  /\ ~res.ok
  /\ res.id \in everIds \ IdsOf(items)
  /\ res.status = NOT_FOUND

---------------------------------------------------------------------------
(* Claims about the HTTP interface *)

IsPost(r) == r.op = "POST"
IsPatch(r) == r.op = "PATCH"
IsGet(r) == r.op = "GET"

\* C11: a POST whose name is '' is answered with an envelope of code
\* VALIDATION_ERROR whose details hold an entry with field "name", and the
\* store and the next id are as before.
C11_EmptyNameFieldViolation ==
  [][(res = Idle /\ IsPost(res') /\ res'.name = Some("")) =>
       /\ ~res'.ok
       /\ res'.body.success = FALSE
       /\ res'.body.error.code = "VALIDATION_ERROR"
       /\ IsDefined(res'.body.error.details)
       /\ \E i \in 1..Len(Val(res'.body.error.details)) :
            Val(res'.body.error.details)[i].field = "name"
       /\ items' = items
       /\ nextId' = nextId]_vars

\* C12: in every reachable state of the service behind its controller,
\* every record of the store has a name that is not the empty string.
C12_NamesNotEmpty ==
  \A i \in 1..Len(items) : items[i].name # ""

\* a PATCH to the name '' has been answered after a record was created by
\* a POST
C12_Witness ==
  /\ IsPatch(res)
  /\ Val(res.data.data).name = Some("")
  /\ res.id = "4"
  /\ Len(items) = 4
  /\ items[4].name = "A"

\* the page and limit that the URL of a GET asks for
Requested(r) == PaginationQuery(r.raw)

Clamp(n, low, high) == Min2(Max2(n, low), high)

\* C13 as stated: every list request is processed with the requested limit
\* clamped to [1,100] and the requested page clamped to >= 1, and these are
\* the values of the pagination block.
C13_LimitAndPageClamped ==
  IsGet(res) =>
    /\ res.ok
    /\ res.body.meta.pagination.limit = Clamp(Requested(res).limit, 1, 100)
    /\ res.body.meta.pagination.page = Max2(Requested(res).page, 1)
    /\ Len(res.body.data) <= res.body.meta.pagination.limit

\* C13 amended: a list request with limit in [1,100] and page >= 1 is
\* processed with exactly these values; one with limit above 100, limit
\* below 1 or page below 1 is not processed but answered with status 400
\* and code VALIDATION_ERROR.
C13_OutOfRangeRejected ==
  IsGet(res) =>
    LET q == Requested(res)
    IN IF q.limit >= 1 /\ q.limit <= 100 /\ q.page >= 1
       THEN /\ res.ok
            /\ res.status = 200
            /\ res.body.meta.pagination.limit = q.limit
            /\ res.body.meta.pagination.page = q.page
            /\ Len(res.body.data) =
                 Min2(q.limit, Max2(0, Len(items) - (q.page - 1) * q.limit))
       ELSE /\ ~res.ok
            /\ res.status = 400
            /\ res.body.error.code = "VALIDATION_ERROR"

\* a request for limit=101 has been answered
C13_Witness ==
  /\ IsGet(res)
  /\ res.raw.limit = Some("101")
  /\ res.raw.page = Some("2")
  /\ res.status = 400

---------------------------------------------------------------------------
(* Further claims about the service *)

\* the ids of the records that were removed
RemovedIds == everIds \ IdsOf(items)

IsById(r) == r.op \in {"findOne", "update", "updateSimple", "remove"}

\* the call failed with not-found
FailedNotFound(r) ==
  /\ ~r.ok
  /\ IF r.op = "remove" THEN r.status = NOT_FOUND
     ELSE r.exception.status = NOT_FOUND

\* C14: a successful remove(id) takes the record out of the store, and from
\* then on, whatever creates, updates and removes follow, the id is in no
\* store and no findAll result, and findOne, update, updateSimple and remove
\* of it fail with not-found.
C14_DeletionPermanent ==
  [][ /\ (res'.op = "remove" /\ res'.ok) => res'.id \notin IdsOf(items')
      /\ \A id \in RemovedIds :
           /\ id \notin IdsOf(items')
           /\ (IsById(res') /\ res'.id = id) => FailedNotFound(res')
           /\ IsFindAll(res') =>
                \A k \in 1..Len(res'.response.data) :
                  res'.response.data[k].id # id ]_vars

\* a lookup of a removed id after a later create
C14_Witness ==
  /\ res.op = "findOne"
  /\ res.id = "3"
  /\ ~res.ok
  /\ "3" \in RemovedIds
  /\ "4" \in IdsOf(items)

---------------------------------------------------------------------------
(* Further claims about the HTTP interface *)

\* the URL of page p of the list with the effective parameters of query q,
\* the comma of a sort value in its URL encoding
LinkTo(p, q) ==
  Some("/v1/items?page=" \o String(p) \o "&limit=" \o String(q.limit)
       \o "&sort=" \o (IF q.sort = "name,createdAt" THEN "name%2CcreatedAt"
                      ELSE q.sort)
       \o "&order=" \o q.order)

\* C15: in every list response all links carry the effective limit, sort
\* and order of the request and differ in the page only: self is the page of
\* the request, first is page 1, last is page totalPages, next is null
\* exactly when hasNext is false and else page+1, prev is null exactly when
\* hasPrev is false and else page-1.
C15_Links ==
  (IsGet(res) /\ res.ok) =>
    LET q == Requested(res)
        p == res.body.meta.pagination
        l == res.body.links
    IN /\ l.self = LinkTo(q.page, q)
       /\ l.first = LinkTo(1, q)
       /\ l.last = LinkTo(p.totalPages, q)
       /\ l.next = Null <=> ~p.hasNext
       /\ p.hasNext => l.next = LinkTo(q.page + 1, q)
       /\ l.prev = Null <=> ~p.hasPrev
       /\ p.hasPrev => l.prev = LinkTo(q.page - 1, q)

\* the second and last page of a descending listing by name, two records
\* a page: a prev link and no next link
C15_Witness ==
  /\ IsGet(res) /\ res.ok
  /\ res.raw = [page |-> Some("2"), limit |-> Some("2"), sort |-> Some("name"),
                order |-> Some("desc")]
  /\ res.body.links.next = Null
  /\ res.body.links.prev =
       Some("/v1/items?page=1&limit=2&sort=name&order=desc")
  /\ res.body.links.last = res.body.links.self

IsCatch(r) == r.op = "catch"

\* C16: whenever the filter classifies an exception as INTERNAL_ERROR, the
\* message of the envelope is "An unexpected error occurred" and not the
\* message of the exception.
C16_InternalMessageFixed ==
  (IsCatch(res) /\ res.body.error.code = "INTERNAL_ERROR") =>
    res.body.error.message = "An unexpected error occurred"

\* the exception reports a failed validation: it carries the list of the
\* violations
IsValidationFailure(exception) ==
  /\ IsObject(exception.response)
  /\ exception.response.message.type = "array"

\* C17: a validation failure reported with status 400 or with status 422 is
\* translated to code VALIDATION_ERROR with message "The request contains
\* invalid data", never to INTERNAL_ERROR.
C17_ValidationAt400And422 ==
  (/\ IsCatch(res)
   /\ IsValidationFailure(res.exception)
   /\ res.exception.status \in {400, 422}) =>
    /\ res.body.error.code = "VALIDATION_ERROR"
    /\ res.body.error.message = "The request contains invalid data"

---------------------------------------------------------------------------
(* Claims about the web client *)

\* C18: when the server answers a DELETE with 204 and no body, deleteItem
\* does not throw and handleDelete calls onItemDeleted with the id; deleteItem
\* throws only when the server reports a failure.
C18_DeleteResolvesOn204 ==
  \A outcome \in client.outcomes :
    /\ outcome.response.status = NO_CONTENT =>
         /\ ~outcome.client.threw
         /\ outcome.client.onItemDeleted = Some(outcome.id)
    /\ outcome.client.threw => ~ResponseOk(outcome.response)

---------------------------------------------------------------------------
(* Claims of the documentation *)

\* the record of the store that entry k of a list response shows
Shown(r, k) == items[StoreIndex(r.body.data[k].id)]

\* a goes before b, or is equal to it, by name and then by createdAt
NameThenCreatedAt(a, b, order) ==
  IF order = "asc"
  THEN \/ StrLess(a.name, b.name)
       \/ a.name = b.name /\ a.createdAt <= b.createdAt
  ELSE \/ StrLess(b.name, a.name)
       \/ a.name = b.name /\ a.createdAt >= b.createdAt

\* C19: a list request with sort=name,createdAt returns the records ordered
\* by name and, among records of the same name, by createdAt.
C19_MultiFieldSort ==
  (IsGet(res) /\ res.ok /\ Requested(res).sort = "name,createdAt") =>
    \A p, q \in 1..Len(res.body.data) :
      p < q => NameThenCreatedAt(Shown(res, p), Shown(res, q),
                                 Requested(res).order)

---------------------------------------------------------------------------
(* Claims about the ErrorBoundary *)

\* C20: the delay handleAutoRetry asks for at retry count n+1 is at least
\* twice the delay it asks for at retry count n.
C20_ExponentialBackoff ==
  \A a, b \in delays :
    b.retryCount = a.retryCount + 1 => b.delay >= 2 * a.delay

---------------------------------------------------------------------------
(* Claims about the frame of the service's calls *)

\* C21: findOne, update, updateSimple and remove of an id that is not in the
\* store fail with not-found, and the records of the store, their order and
\* the next id are as they were before the call.
C21_FailedCallChangesNothing ==
  [][ (IsById(res') /\ res'.id \notin IdsOf(items)) =>
        /\ FailedNotFound(res')
        /\ items' = items
        /\ nextId' = nextId ]_vars

\* an update of an id that was removed before
C21_Witness ==
  /\ res.op = "update"
  /\ ~res.ok
  /\ res.id \in RemovedIds
  /\ Len(items) = 2

\* the ids of the records of a list, in the order of the list
IdsInOrder(arr) == [i \in 1..Len(arr) |-> arr[i].id]

\* C22: a list request that names no sort and no order answers with the
\* records in storage order (the order of their creation), the page cut out
\* of it, whatever ids the store holds.
C22_DefaultListInStorageOrder ==
  (IsGet(res) /\ res.ok /\ ~IsDefined(res.raw.sort) /\ ~IsDefined(res.raw.order)) =>
    LET q == Requested(res) IN
    IdsInOrder(res.body.data)
      = IdsInOrder(slice(items, (q.page - 1) * q.limit, q.page * q.limit))

\* C23: findAll leaves the records of the store and their order as they
\* were, whatever the sort field, order, page and limit of the query.
C23_FindAllReadOnly ==
  [][ IsFindAll(res') => (items' = items /\ nextId' = nextId) ]_vars

\* a listing whose order is not the order of the store
C23_Witness ==
  /\ IsFindAll(res)
  /\ res.query.order = "desc"
  /\ Len(res.response.data) = 2
  /\ IdsInOrder(res.response.data) # IdsInOrder(SubSeq(items, 1, 2))

---------------------------------------------------------------------------
(* Claims about the pages of a list *)

\* the pages 1..n of the query, one after the other
RECURSIVE PagesUpTo(_, _)
PagesUpTo(query, n) ==
  IF n = 0 THEN <<>>
  ELSE PagesUpTo(query, n - 1) \o findAll(items, [query EXCEPT !.page = n]).items

\* C24: for the store, limit, sort and order of a findAll, the pages 1 to
\* totalPages, one after the other, are the sorted collection: every record
\* of the store is on exactly one page, and the page of the call is its part
\* of them.
C24_PagesPartition ==
  IsFindAll(res) =>
    LET query == res.query
        all == PagesUpTo(query, Pagination(res).totalPages)
        sorted == sort(items, query)
        start == (query.page - 1) * query.limit
    IN /\ Len(all) = Len(items)
       /\ {all[i].id : i \in 1..Len(all)} = IdsOf(items)
       /\ \A i, j \in 1..Len(all) : all[i].id = all[j].id => i = j
       /\ all = [i \in 1..Len(sorted) |-> toDto(sorted[i])]
       /\ res.response.data = slice(all, start, start + query.limit)

\* the second of two pages of a store of four records, sorted downwards
C24_Witness ==
  /\ IsFindAll(res)
  /\ Len(items) = 4
  /\ res.query.page = 2
  /\ res.query.limit = 2
  /\ res.query.order = "desc"
  /\ Pagination(res).totalPages = 2
  /\ Len(res.response.data) = 2

---------------------------------------------------------------------------
(* Claims about updates of one record *)

\* the value of a field after two updates: that of the later update if it
\* gives the field, else that of the earlier one if it gives the field, else
\* the value before both
AfterBoth(before, earlier, later) ==
  IF IsDefined(later) THEN Val(later)
  ELSE IF IsDefined(earlier) THEN Val(earlier)
  ELSE before

\* C25: an updateSimple runs as one step, and a second updateSimple of the
\* same record that follows it loses nothing of the first: after both, a
\* field that only one of them gives has the value of that one (the name of
\* one and the description of the other, in either order), and a field that
\* both give has the value of the later one.
C25_NoLostUpdate ==
  (res.op = "updateSimple" /\ res.ok) =>
    LET i == StoreIndex(res.id)
        first == items[i]
    IN /\ first.name = AfterBoth(first.name, Undefined, res.data.name)
       /\ first.description
            = AfterBoth(first.description, Undefined, res.data.description)
       /\ \A name \in AnyNames, description \in AnyDescriptions :
            LET r == updateSimple(items, nextId, res.id, name, description, now)
                second == r.items[i]
            IN /\ r.ok
               /\ Len(r.items) = Len(items)
               /\ second.name = AfterBoth(first.name, res.data.name, name)
               /\ second.description
                    = AfterBoth(first.description, res.data.description,
                                description)

\* record 1 has got its name from one update and now its description from
\* another
C25_Witness ==
  /\ res.op = "updateSimple"
  /\ res.ok
  /\ res.id = "1"
  /\ res.data = [name |-> Undefined, description |-> Some("E")]
  /\ items[1].name = "B"
  /\ items[1].description = "E"

\* C26: update and updateSimple agree: for the same store, id, name and
\* description, each of them absent or a string, the empty string included,
\* the two store the same record.
C26_UpdateAgreesWithUpdateSimple ==
  [][ /\ (res'.op = "update" /\ res'.ok) =>
           items' = updateSimple(items, nextId, res'.id, res'.data.name,
                                 res'.data.description, now).items
      /\ (res'.op = "updateSimple" /\ res'.ok) =>
           items' = update(items, nextId, res'.id, res'.data, now).items ]_vars

---------------------------------------------------------------------------
(* Claims about the links of a list *)

\* the page number written in a link: the digits between "page=" and the
\* first "&"
PageOfLink(url) ==
  Number(SubSeq(url, Len("/v1/items?page=") + 1, IndexOf(url, "&") - 1))

\* C27: every link of a list response that is not null names a page that
\* the list endpoint accepts, a page number of at least 1, the empty store
\* included.
C27_LinksNameValidPages ==
  IsFindAll(res) =>
    \A k \in {"self", "first", "last", "next", "prev"} :
      LET l == res.response.links[k] IN
      l # Null => PageOfLink(Val(l)) >= MinPage

---------------------------------------------------------------------------
(* Further claims about the ErrorBoundary *)

\* C28: retryCount is at most 3 in every state, whatever the order of the
\* clicks on 'Try Again' and 'Auto Retry', the timeouts that fire, the
\* changes of resetKeys or children and the errors of the children.
C28_AtMostThreeRetries ==
  boundary.retryCount <= maxRetries

\* C29: once the boundary is unmounted no timeout of handleAutoRetry fires:
\* componentWillUnmount has cancelled all of them.
C29_NoTimeoutAfterUnmount ==
  [][ ~boundary.mounted => timers' = timers ]_vars

---------------------------------------------------------------------------
(* Claims about useOptimisticAction *)

\* C30: when all the actions that overlapped have failed, the data is the
\* data held before the first of them, and while none has succeeded an
\* action that has failed leaves its optimistic change invisible: the item
\* it took out of the list is in the list again.
C30_FailedActionsAreReverted ==
  ~optimistic.resolved =>
    /\ (optimistic.started > 0 /\ optimistic.inflight = {}) =>
         optimistic.data = optimistic.base
    /\ \A id \in optimistic.rejected :
         ( /\ \E i \in 1..Len(optimistic.base) : optimistic.base[i] = id
           /\ \A action \in optimistic.inflight : action.optimisticValue # id )
         => \E i \in 1..Len(optimistic.data) : optimistic.data[i] = id

====
